---------------------------- MODULE Spec2Model ----------------------------
(***************************************************************************)
(* A model of the rustynes 6502 core: the status register (processor.rs), *)
(* the stack pointer (stack.rs), the opcode table (op_codes.rs) and the   *)
(* CPU with its memory, addressing modes, instruction handlers and the    *)
(* fetch-decode-execute loop (cpu.rs).                                     *)
(***************************************************************************)
EXTENDS Naturals, Integers, Sequences, FiniteSets, TLC

VARIABLES
    register_a,       \* CPU.register_a : u8
    register_x,       \* CPU.register_x : u8
    register_y,       \* CPU.register_y : u8
    status,           \* CPU.status.flags : u8
    program_counter,  \* CPU.program_counter : u16
    stack,            \* CPU.stack._ptr : u8
    memory,           \* CPU.memory : [u8; 0xFFFF], kept as its non-zero cells
    ctl,              \* position of the caller: "ready", "running", "returned", "panicked"
    fault,            \* which panic ended the call ("none" while there is none)
    overflow_checks,  \* build setting: integer overflow panics (debug) or wraps (release)
    calls,            \* number of public operations called since CPU::new()
    last              \* the operation that produced this state, with the state before it

vars ==
    << register_a, register_x, register_y, status, program_counter, stack,
       memory, ctl, fault, overflow_checks, calls, last >>

(***************************************************************************)
(* Fixed-width integers and bit operations.                                *)
(***************************************************************************)
U8 == 256

U16 == 65536

Bit(v, i) == (v \div (2 ^ i)) % 2

RECURSIVE BitAndN(_, _, _)
BitAndN(a, b, n) ==
    IF n = 0 THEN 0
    ELSE (IF a % 2 = 1 /\ b % 2 = 1 THEN 1 ELSE 0)
         + 2 * BitAndN(a \div 2, b \div 2, n - 1)

RECURSIVE BitOrN(_, _, _)
BitOrN(a, b, n) ==
    IF n = 0 THEN 0
    ELSE (IF a % 2 = 1 \/ b % 2 = 1 THEN 1 ELSE 0)
         + 2 * BitOrN(a \div 2, b \div 2, n - 1)

RECURSIVE BitXorN(_, _, _)
BitXorN(a, b, n) ==
    IF n = 0 THEN 0
    ELSE (IF (a % 2) # (b % 2) THEN 1 ELSE 0)
         + 2 * BitXorN(a \div 2, b \div 2, n - 1)

BitAnd(a, b) == BitAndN(a, b, 16)

BitOr(a, b) == BitOrN(a, b, 16)

BitXor(a, b) == BitXorN(a, b, 16)

\* u8 << 1 and u8 >> 1: the bit shifted out is dropped
Shl8(v) == (v * 2) % U8

Shr8(v) == v \div 2

\* u8::wrapping_add, u8::wrapping_sub, u16::wrapping_add
\* an 8-bit addition that keeps the carry out of bit 7
add8_unwrapped(a, b) == a + b

wrapping_add8(a, b) == (a + b) % U8

wrapping_sub8(a, b) == (a + U8 - b) % U8

wrapping_add16(a, b) == (a + b) % U16

(***************************************************************************)
(* processor.rs: the status byte NV1B DIZC.                                *)
(***************************************************************************)
Processor_new == \b00110000

carry(flags) == Bit(flags, 0)

zero(flags) == Bit(flags, 1)

interrupt(flags) == Bit(flags, 2)

decimal(flags) == Bit(flags, 3)

overflow(flags) == Bit(flags, 6)

negative(flags) == Bit(flags, 7)

set_carry(flags) == BitOr(flags, \b00000001)

set_zero(flags) == BitOr(flags, \b00000010)

set_interrupt(flags) == BitOr(flags, \b00000100)

set_decimal(flags) == BitOr(flags, \b00001000)

set_overflow(flags) == BitOr(flags, \b01000000)

set_negative(flags) == BitOr(flags, \b10000000)

clear_carry(flags) == BitAnd(flags, \b11111110)

clear_zero(flags) == BitAnd(flags, \b11111101)

clear_interrupt(flags) == BitAnd(flags, \b11111011)

clear_decimal(flags) == BitAnd(flags, \b11110111)

\* clear_overflow with the mask one bit off: bit 5 instead of bit 6
clear_overflow_bit5(flags) == BitAnd(flags, \b11011111)

clear_overflow(flags) == BitAnd(flags, \b10111111)

\* clear_negative with a mask that also drops bit 6
clear_negative_and_overflow(flags) == BitAnd(flags, \b00111111)

clear_negative(flags) == BitAnd(flags, \b01111111)

(***************************************************************************)
(* stack.rs: the 8-bit stack pointer.                                      *)
(***************************************************************************)
STACK_BOTTOM == \h01FF

STACK_TOP == \h0100

Stack_new(bottom, top) == bottom % U8

Stack_ptr(ptr) == ptr

decr_ptr(ptr) == wrapping_add8(ptr, 1)

\* an incr_ptr that stops at 0
incr_ptr_saturating(ptr) == IF ptr = 0 THEN 0 ELSE ptr - 1

incr_ptr(ptr) == wrapping_sub8(ptr, 1)

(***************************************************************************)
(* op_codes.rs: the opcode table and the lookup map built from it.         *)
(***************************************************************************)
OpCode(code, mnemonic, len, cycles, mode) ==
    [code |-> code, mnemonic |-> mnemonic, len |-> len, cycles |-> cycles,
     mode |-> mode]

NMOS_6502_OPCODES ==
    << OpCode(\h00, "BRK", 1, 7, "NoneAddressing"),
       OpCode(\hA9, "INX", 1, 2, "NoneAddressing"),
       OpCode(\hA9, "LDA", 2, 2, "Immediate"),
       OpCode(\hA5, "LDA", 2, 3, "ZeroPage"),
       OpCode(\hB5, "LDA", 2, 4, "ZeroPage_X"),
       OpCode(\hAD, "LDA", 3, 4, "Absolute"),
       OpCode(\hBD, "LDA", 3, 4, "Absolute_X"),
       OpCode(\hB9, "LDA", 3, 4, "Absolute_Y"),
       OpCode(\hA1, "LDA", 2, 6, "Indirect_X"),
       OpCode(\hB1, "LDA", 2, 5, "Indirect_Y"),
       OpCode(\h85, "STA", 2, 3, "ZeroPage"),
       OpCode(\h95, "STA", 2, 4, "ZeroPage_X"),
       OpCode(\h8D, "STA", 3, 4, "Absolute"),
       OpCode(\h9D, "STA", 3, 5, "Absolute_X"),
       OpCode(\h99, "STA", 3, 5, "Absolute_Y"),
       OpCode(\h81, "STA", 2, 6, "Indirect_X"),
       OpCode(\h91, "STA", 2, 6, "Indirect_Y"),
       OpCode(\h91, "TAX", 1, 2, "NoneAddressing") >>

\* an insert that keeps the value already stored under the key
HashMap_insert_keep_first(map, key, value) ==
    [k \in (DOMAIN map) \cup {key} |->
        IF k \in DOMAIN map THEN map[k] ELSE value]

\* HashMap::insert: a later value replaces the one stored under the same key
HashMap_insert(map, key, value) ==
    [k \in (DOMAIN map) \cup {key} |-> IF k = key THEN value ELSE map[k]]

RECURSIVE InsertRows(_, _, _)
InsertRows(rows, i, map) ==
    IF i > Len(rows) THEN map
    ELSE InsertRows(rows, i + 1, HashMap_insert(map, rows[i].code, rows[i]))

\* the map of a table whose STA zero-page row has no addressing mode
OPCODES_MAP_sta_without_mode ==
    HashMap_insert(InsertRows(NMOS_6502_OPCODES, 1, <<>>), \h85,
                   OpCode(\h85, "STA", 2, 3, "NoneAddressing"))

NMOS_6502_OPCODES_MAP == InsertRows(NMOS_6502_OPCODES, 1, <<>>)

(***************************************************************************)
(* cpu.rs: memory.  The array has MEM_SIZE cells, so index MEM_SIZE (the   *)
(* address 0xFFFF) is outside it and indexing it panics.  The model keeps  *)
(* the non-zero cells only: a cell that is absent reads as 0.              *)
(***************************************************************************)
MEM_SIZE == 65535

InBounds(addr) == addr < MEM_SIZE

Store(mem, addr, data) ==
    IF data = 0
    THEN [k \in (DOMAIN mem) \ {addr} |-> mem[k]]
    ELSE [k \in (DOMAIN mem) \cup {addr} |-> IF k = addr THEN data ELSE mem[k]]

\* self.memory[addr as usize], for an addr inside the array
mem_read(c, addr) == IF addr \in DOMAIN c.memory THEN c.memory[addr] ELSE 0

\* self.memory[addr as usize] = data, for an addr inside the array
mem_write(c, addr, data) == [c EXCEPT !.memory = Store(c.memory, addr, data)]

\* mem_read_u16 panics on the first index outside the array: pos itself, or
\* pos + 1 (pos = 0xFFFF never reaches the addition)
mem_read_u16_ok(pos) == InBounds(pos) /\ InBounds(pos + 1)

mem_read_u16(c, pos) ==
    LET lo == mem_read(c, pos)
        hi == mem_read(c, pos + 1)
    IN  BitOr(hi * 256, lo)

mem_write_u16_ok(pos) == InBounds(pos) /\ InBounds(pos + 1)

\* mem_write_u16 that writes the high byte first
mem_write_u16_big_endian(c, pos, data) ==
    LET hi == data \div 256
        lo == BitAnd(data, \hFF)
    IN  mem_write(mem_write(c, pos, hi), pos + 1, lo)

mem_write_u16(c, pos, data) ==
    LET hi == data \div 256
        lo == BitAnd(data, \hFF)
    IN  mem_write(mem_write(c, pos, lo), pos + 1, hi)

(***************************************************************************)
(* cpu.rs: the CPU as a record, and how a call ends.                       *)
(***************************************************************************)
CPU_new ==
    [register_a |-> 0, register_x |-> 0, register_y |-> 0,
     status |-> Processor_new, program_counter |-> 0,
     stack |-> Stack_new(STACK_BOTTOM, STACK_TOP), memory |-> <<>>,
     ctl |-> "ready", fault |-> "none"]

Panic(c, kind) == [c EXCEPT !.ctl = "panicked", !.fault = kind]

Panicked(c) == c.ctl = "panicked"

Addr(a) == [fault |-> "none", addr |-> a]

NoAddr(kind) == [fault |-> kind, addr |-> 0]

(***************************************************************************)
(* cpu.rs: update_zero_and_negative_flags and get_operand_address.         *)
(***************************************************************************)
\* an update that sets the two flags and never clears them
update_flags_set_only(c, result) ==
    LET z == IF result = 0 THEN set_zero(c.status) ELSE c.status
        n == IF BitAnd(result, \b10000000) # 0 THEN set_negative(z) ELSE z
    IN  [c EXCEPT !.status = n]

update_zero_and_negative_flags(c, result) ==
    LET z == IF result = 0 THEN set_zero(c.status) ELSE clear_zero(c.status)
        n == IF BitAnd(result, \b10000000) # 0
             THEN set_negative(z) ELSE clear_negative(z)
    IN  [c EXCEPT !.status = n]

get_operand_address(c, mode) ==
    LET pc == c.program_counter
    IN  CASE mode = "Immediate" -> Addr(pc)
          [] mode = "ZeroPage" ->
                IF ~InBounds(pc) THEN NoAddr("index")
                ELSE Addr(mem_read(c, pc))
          [] mode = "ZeroPage_X" ->
                IF ~InBounds(pc) THEN NoAddr("index")
                ELSE Addr(wrapping_add8(mem_read(c, pc), c.register_x))
          [] mode = "ZeroPage_Y" ->
                IF ~InBounds(pc) THEN NoAddr("index")
                ELSE Addr(wrapping_add8(mem_read(c, pc), c.register_y))
          [] mode = "Absolute" ->
                IF ~mem_read_u16_ok(pc) THEN NoAddr("index")
                ELSE Addr(mem_read_u16(c, pc))
          [] mode = "Absolute_X" ->
                IF ~mem_read_u16_ok(pc) THEN NoAddr("index")
                ELSE Addr(wrapping_add16(mem_read_u16(c, pc), c.register_x))
          [] mode = "Absolute_Y" ->
                IF ~mem_read_u16_ok(pc) THEN NoAddr("index")
                ELSE Addr(wrapping_add16(mem_read_u16(c, pc), c.register_y))
          [] mode = "Indirect" ->
                IF ~InBounds(pc) THEN NoAddr("index")
                ELSE LET ptr == mem_read(c, pc)
                         lo == mem_read(c, ptr)
                         hi == mem_read(c, wrapping_add8(ptr, 1))
                     IN  IF lo = \hFF
                         THEN Addr(BitOr((BitAnd(ptr, \hFF00) * 256) % U16, lo))
                         ELSE Addr(BitOr(hi * 256, lo))
          [] mode = "Indirect_X" ->
                IF ~InBounds(pc) THEN NoAddr("index")
                ELSE LET ptr == wrapping_add8(mem_read(c, pc), c.register_x)
                         lo == mem_read(c, ptr)
                         hi == mem_read(c, wrapping_add8(ptr, 1))
                     IN  Addr(BitOr(hi * 256, lo))
          [] mode = "Indirect_Y" ->
                IF ~InBounds(pc) THEN NoAddr("index")
                ELSE LET base == mem_read(c, pc)
                         lo == mem_read(c, base)
                         hi == mem_read(c, wrapping_add8(base, 1))
                         deref_base == BitOr(hi * 256, lo)
                     IN  Addr(wrapping_add16(deref_base, c.register_y))
          [] OTHER -> NoAddr("mode")

\* let addr = self.get_operand_address(..); let data = self.mem_read(addr);
\* the panic of either, or "none"
OperandFault(c, mode) ==
    LET r == get_operand_address(c, mode)
    IN  IF r.fault # "none" THEN r.fault
        ELSE IF ~InBounds(r.addr) THEN "index"
        ELSE "none"

OperandAddr(c, mode) == get_operand_address(c, mode).addr

(***************************************************************************)
(* cpu.rs: the instruction handlers.  Each takes the CPU after the fetch   *)
(* (program_counter is the address after the opcode byte) and the opcode   *)
(* row, and gives the CPU after the handler, or the CPU as the panic left  *)
(* it.                                                                     *)
(***************************************************************************)
todo(c) == Panic(c, "todo")

adc(c, op_code) == todo(c)

and(c, op_code) ==
    LET f == OperandFault(c, op_code.mode)
        data == mem_read(c, OperandAddr(c, op_code.mode))
        a == BitAnd(c.register_a, data)
    IN  IF f # "none" THEN Panic(c, f)
        ELSE update_zero_and_negative_flags([c EXCEPT !.register_a = a], a)

CarryFrom(c, bit) ==
    [c EXCEPT !.status = IF bit = 1 THEN set_carry(c.status)
                         ELSE clear_carry(c.status)]

handle_accumulator_asl(c, op_code) ==
    LET data == c.register_a
    IN  [CarryFrom(c, Bit(data, 7)) EXCEPT !.register_a = Shl8(data)]

handle_non_accumulator_asl(c, op_code) ==
    LET f == OperandFault(c, op_code.mode)
        addr == OperandAddr(c, op_code.mode)
        data == mem_read(c, addr)
    IN  IF f # "none" THEN Panic(c, f)
        ELSE mem_write(CarryFrom(c, Bit(data, 7)), addr, Shl8(data))

asl(c, op_code) ==
    LET acc == op_code.code = \h0A
        r == IF acc THEN handle_accumulator_asl(c, op_code)
             ELSE handle_non_accumulator_asl(c, op_code)
        data == IF acc THEN r.register_a
                ELSE mem_read(r, OperandAddr(c, op_code.mode))
    IN  IF Panicked(r) THEN r ELSE update_zero_and_negative_flags(r, data)

bcc(c, op_code) == todo(c)

bcs(c, op_code) == todo(c)

beq(c, op_code) == todo(c)

bit(c, op_code) == todo(c)

bmi(c, op_code) == todo(c)

bne(c, op_code) == todo(c)

bpl(c, op_code) == todo(c)

bvc(c, op_code) == todo(c)

bvs(c, op_code) == todo(c)

clc(c) == [c EXCEPT !.status = clear_carry(c.status)]

cld(c) == [c EXCEPT !.status = clear_decimal(c.status)]

cli(c) == [c EXCEPT !.status = clear_interrupt(c.status)]

clv(c) == [c EXCEPT !.status = clear_overflow(c.status)]

\* the body shared by cmp and cpx: three independent ifs that only ever set
Compare(c, op_code, register_data) ==
    LET f == OperandFault(c, op_code.mode)
        data == mem_read(c, OperandAddr(c, op_code.mode))
        s1 == IF register_data >= data THEN set_carry(c.status) ELSE c.status
        s2 == IF register_data = data THEN set_zero(s1) ELSE s1
        s3 == IF Bit(wrapping_sub8(register_data, data), 1) = 1
              THEN set_negative(s2) ELSE s2
    IN  IF f # "none" THEN Panic(c, f) ELSE [c EXCEPT !.status = s3]

cmp(c, op_code) == Compare(c, op_code, c.register_a)

cpx(c, op_code) == Compare(c, op_code, c.register_x)

\* cpy tests equality only in the else branch of >=, and subtracts with `-`,
\* which panics on underflow when the build checks overflow
cpy(c, op_code) ==
    LET f == OperandFault(c, op_code.mode)
        data == mem_read(c, OperandAddr(c, op_code.mode))
        y == c.register_y
        s1 == IF y >= data THEN set_carry(c.status)
              ELSE IF y = data THEN set_zero(c.status)
              ELSE c.status
        c1 == [c EXCEPT !.status = s1]
        diff == wrapping_sub8(y, data)
    IN  IF f # "none" THEN Panic(c, f)
        ELSE IF y < data /\ overflow_checks THEN Panic(c1, "overflow")
        ELSE IF Bit(diff, 1) = 1
             THEN [c1 EXCEPT !.status = set_negative(s1)]
             ELSE c1

dec(c, op_code) ==
    LET f == OperandFault(c, op_code.mode)
        addr == OperandAddr(c, op_code.mode)
        old == mem_read(c, addr)
        data == IF old = 0 THEN 255 ELSE old - 1
    IN  IF f # "none" THEN Panic(c, f)
        ELSE update_zero_and_negative_flags(mem_write(c, addr, data), data)

\* a dex that stops at 0
dex_without_wrap(c) ==
    LET x == IF c.register_x = 0 THEN 0 ELSE c.register_x - 1
    IN  update_zero_and_negative_flags([c EXCEPT !.register_x = x], x)

dex(c) ==
    LET x == IF c.register_x = 0 THEN 255 ELSE c.register_x - 1
    IN  update_zero_and_negative_flags([c EXCEPT !.register_x = x], x)

dey(c) ==
    LET y == IF c.register_y = 0 THEN 255 ELSE c.register_y - 1
    IN  update_zero_and_negative_flags([c EXCEPT !.register_y = y], y)

eor(c, op_code) ==
    LET f == OperandFault(c, op_code.mode)
        data == mem_read(c, OperandAddr(c, op_code.mode))
        a == BitXor(c.register_a, data)
    IN  IF f # "none" THEN Panic(c, f)
        ELSE update_zero_and_negative_flags([c EXCEPT !.register_a = a], a)

inc(c, op_code) ==
    LET f == OperandFault(c, op_code.mode)
        addr == OperandAddr(c, op_code.mode)
        old == mem_read(c, addr)
        data == IF old = 255 THEN 0 ELSE old + 1
    IN  IF f # "none" THEN Panic(c, f)
        ELSE update_zero_and_negative_flags(mem_write(c, addr, data), data)

inx(c) ==
    LET x == IF c.register_x = 255 THEN 0 ELSE c.register_x + 1
    IN  update_zero_and_negative_flags([c EXCEPT !.register_x = x], x)

iny(c) ==
    LET y == IF c.register_y = 255 THEN 0 ELSE c.register_y + 1
    IN  update_zero_and_negative_flags([c EXCEPT !.register_y = y], y)

\* jmp reads the 16-bit operand itself; its indirect form is the arm for
\* NoneAddressing, and any mode but Absolute and NoneAddressing panics
jmp_indirect_hi_addr(addr) == BitAnd(addr, \h00FF)

jmp(c, op_code) ==
    LET pc == c.program_counter
        addr == mem_read_u16(c, pc)
        wrap == BitAnd(addr, \h00FF) = \h00FF
        lo == mem_read(c, addr)
        hi == mem_read(c, jmp_indirect_hi_addr(addr))
    IN  IF ~mem_read_u16_ok(pc) THEN Panic(c, "index")
        ELSE CASE op_code.mode = "Absolute" ->
                    [c EXCEPT !.program_counter = addr]
               [] op_code.mode = "NoneAddressing" ->
                    IF wrap
                    THEN IF ~InBounds(addr) THEN Panic(c, "index")
                         ELSE [c EXCEPT !.program_counter = BitOr(hi * 256, lo)]
                    ELSE IF ~mem_read_u16_ok(addr) THEN Panic(c, "index")
                         ELSE [c EXCEPT !.program_counter = mem_read_u16(c, addr)]
               [] OTHER -> Panic(c, "jmp_mode")

jsr(c, op_code) == todo(c)

\* lda that forgets update_zero_and_negative_flags
lda_without_flags(c, op_code) ==
    LET f == OperandFault(c, op_code.mode)
        data == mem_read(c, OperandAddr(c, op_code.mode))
    IN  IF f # "none" THEN Panic(c, f)
        ELSE [c EXCEPT !.register_a = data]

lda(c, op_code) ==
    LET f == OperandFault(c, op_code.mode)
        data == mem_read(c, OperandAddr(c, op_code.mode))
    IN  IF f # "none" THEN Panic(c, f)
        ELSE update_zero_and_negative_flags([c EXCEPT !.register_a = data], data)

ldx(c, op_code) ==
    LET f == OperandFault(c, op_code.mode)
        data == mem_read(c, OperandAddr(c, op_code.mode))
    IN  IF f # "none" THEN Panic(c, f)
        ELSE update_zero_and_negative_flags([c EXCEPT !.register_x = data], data)

ldy(c, op_code) ==
    LET f == OperandFault(c, op_code.mode)
        data == mem_read(c, OperandAddr(c, op_code.mode))
    IN  IF f # "none" THEN Panic(c, f)
        ELSE update_zero_and_negative_flags([c EXCEPT !.register_y = data], data)

\* an lsr on A that takes Carry from bit 7
handle_accumulator_lsr_bit7(c, op_code) ==
    LET data == c.register_a
    IN  [CarryFrom(c, Bit(data, 7)) EXCEPT !.register_a = Shr8(data)]

handle_accumulator_lsr(c, op_code) ==
    LET data == c.register_a
    IN  [CarryFrom(c, Bit(data, 0)) EXCEPT !.register_a = Shr8(data)]

handle_non_accumulator_lsr(c, op_code) ==
    LET f == OperandFault(c, op_code.mode)
        addr == OperandAddr(c, op_code.mode)
        data == mem_read(c, addr)
    IN  IF f # "none" THEN Panic(c, f)
        ELSE mem_write(CarryFrom(c, Bit(data, 0)), addr, Shr8(data))

lsr(c, op_code) ==
    LET acc == op_code.code = \h4A
        r == IF acc THEN handle_accumulator_lsr(c, op_code)
             ELSE handle_non_accumulator_lsr(c, op_code)
        data == IF acc THEN r.register_a
                ELSE mem_read(r, OperandAddr(c, op_code.mode))
    IN  IF Panicked(r) THEN r ELSE update_zero_and_negative_flags(r, data)

nop(c) == c

ora(c, op_code) ==
    LET f == OperandFault(c, op_code.mode)
        data == mem_read(c, OperandAddr(c, op_code.mode))
        a == BitOr(c.register_a, data)
    IN  IF f # "none" THEN Panic(c, f)
        ELSE update_zero_and_negative_flags([c EXCEPT !.register_a = a], a)

pha(c) == todo(c)

php(c) == todo(c)

pla(c) == todo(c)

plp(c) == todo(c)

\* the bit both rol handlers copy into Carry, and the rotated value
rol_carry_bit(data) == Bit(data, 0)

rol_value(data, old_carry) == BitOr(Shl8(data), old_carry)

handle_accumulator_rol(c, op_code) ==
    LET data == c.register_a
        old_carry == carry(c.status)
    IN  [CarryFrom(c, rol_carry_bit(data))
            EXCEPT !.register_a = rol_value(data, old_carry)]

handle_non_accumulator_rol(c, op_code) ==
    LET f == OperandFault(c, op_code.mode)
        addr == OperandAddr(c, op_code.mode)
        data == mem_read(c, addr)
        old_carry == carry(c.status)
    IN  IF f # "none" THEN Panic(c, f)
        ELSE mem_write(CarryFrom(c, rol_carry_bit(data)), addr,
                       rol_value(data, old_carry))

rol(c, op_code) ==
    LET acc == op_code.code = \h2A
        r == IF acc THEN handle_accumulator_rol(c, op_code)
             ELSE handle_non_accumulator_rol(c, op_code)
        data == IF acc THEN r.register_a
                ELSE mem_read(r, OperandAddr(c, op_code.mode))
    IN  IF Panicked(r) THEN r ELSE update_zero_and_negative_flags(r, data)

\* the bit both ror handlers copy into Carry, and the rotated value
ror_carry_bit(data) == Bit(data, 7)

ror_value(data, old_carry) ==
    IF old_carry = 1 THEN BitOr(Shr8(data), \b10000000) ELSE Shr8(data)

handle_accumulator_ror(c, op_code) ==
    LET data == c.register_a
        old_carry == carry(c.status)
    IN  [CarryFrom(c, ror_carry_bit(data))
            EXCEPT !.register_a = ror_value(data, old_carry)]

handle_non_accumulator_ror(c, op_code) ==
    LET f == OperandFault(c, op_code.mode)
        addr == OperandAddr(c, op_code.mode)
        data == mem_read(c, addr)
        old_carry == carry(c.status)
    IN  IF f # "none" THEN Panic(c, f)
        ELSE mem_write(CarryFrom(c, ror_carry_bit(data)), addr,
                       ror_value(data, old_carry))

\* the opcode byte ror takes for its accumulator form
ror_accumulator_code == \h2A

ror(c, op_code) ==
    LET acc == op_code.code = ror_accumulator_code
        r == IF acc THEN handle_accumulator_ror(c, op_code)
             ELSE handle_non_accumulator_ror(c, op_code)
        data == IF acc THEN r.register_a
                ELSE mem_read(r, OperandAddr(c, op_code.mode))
    IN  IF Panicked(r) THEN r ELSE update_zero_and_negative_flags(r, data)

rti(c) == todo(c)

rts(c) == todo(c)

sbc(c, op_code) == todo(c)

sec(c) == [c EXCEPT !.status = set_carry(c.status)]

sed(c) == [c EXCEPT !.status = set_decimal(c.status)]

sei(c) == [c EXCEPT !.status = set_interrupt(c.status)]

\* get_operand_address, then mem_write(addr, register)
StoreRegister(c, op_code, register_data) ==
    LET f == OperandFault(c, op_code.mode)
    IN  IF f # "none" THEN Panic(c, f)
        ELSE mem_write(c, OperandAddr(c, op_code.mode), register_data)

sta(c, op_code) == StoreRegister(c, op_code, c.register_a)

stx(c, op_code) == StoreRegister(c, op_code, c.register_x)

sty(c, op_code) == StoreRegister(c, op_code, c.register_y)

\* tax left as todo!()
tax_unimplemented(c) == Panic(c, "todo")

tax(c) ==
    update_zero_and_negative_flags([c EXCEPT !.register_x = c.register_a],
                                   c.register_a)

tay(c) ==
    update_zero_and_negative_flags([c EXCEPT !.register_y = c.register_a],
                                   c.register_a)

tsx(c) == [c EXCEPT !.register_x = Stack_ptr(c.stack)]

txa(c) ==
    update_zero_and_negative_flags([c EXCEPT !.register_a = c.register_x],
                                   c.register_x)

\* Stack::set_ptr is called by txs and defined nowhere in stack.rs
Stack_set_ptr(ptr, value) == value

txs(c) == [c EXCEPT !.stack = Stack_set_ptr(c.stack, c.register_x)]

tya(c) ==
    update_zero_and_negative_flags([c EXCEPT !.register_a = c.register_y],
                                   c.register_y)

(***************************************************************************)
(* cpu.rs: CPU::run, one iteration of its loop.                            *)
(***************************************************************************)
\* a BRK arm that falls through to advance_program_counter like the others
brk_falls_through(c) == c

\* "BRK" => return
brk(c) == [c EXCEPT !.ctl = "returned"]

\* match op_code.mnemonic { ... _ => panic!() }
Dispatch(c, op_code) ==
    LET m == op_code.mnemonic
    IN  CASE m = "ADC" -> adc(c, op_code)
          [] m = "AND" -> and(c, op_code)
          [] m = "ASL" -> asl(c, op_code)
          [] m = "BCC" -> bcc(c, op_code)
          [] m = "BCS" -> bcs(c, op_code)
          [] m = "BEQ" -> beq(c, op_code)
          [] m = "BIT" -> bit(c, op_code)
          [] m = "BMI" -> bmi(c, op_code)
          [] m = "BNE" -> bne(c, op_code)
          [] m = "BPL" -> bpl(c, op_code)
          [] m = "BRK" -> brk(c)
          [] m = "BVC" -> bvc(c, op_code)
          [] m = "BVS" -> bvs(c, op_code)
          [] m = "CLC" -> clc(c)
          [] m = "CLD" -> cld(c)
          [] m = "CLI" -> cli(c)
          [] m = "CLV" -> clv(c)
          [] m = "CMP" -> cmp(c, op_code)
          [] m = "CPX" -> cpx(c, op_code)
          [] m = "CPY" -> cpy(c, op_code)
          [] m = "DEC" -> dec(c, op_code)
          [] m = "DEX" -> dex(c)
          [] m = "DEY" -> dey(c)
          [] m = "EOR" -> eor(c, op_code)
          [] m = "INC" -> inc(c, op_code)
          [] m = "INX" -> inx(c)
          [] m = "INY" -> iny(c)
          [] m = "JMP" -> jmp(c, op_code)
          [] m = "JSR" -> jsr(c, op_code)
          [] m = "LDA" -> lda(c, op_code)
          [] m = "LDX" -> ldx(c, op_code)
          [] m = "LDY" -> ldy(c, op_code)
          [] m = "LSR" -> lsr(c, op_code)
          [] m = "NOP" -> nop(c)
          [] m = "ORA" -> ora(c, op_code)
          [] m = "PHA" -> pha(c)
          [] m = "PHP" -> php(c)
          [] m = "PLA" -> pla(c)
          [] m = "PLP" -> plp(c)
          [] m = "ROL" -> rol(c, op_code)
          [] m = "ROR" -> ror(c, op_code)
          [] m = "RTI" -> rti(c)
          [] m = "RTS" -> rts(c)
          [] m = "SBC" -> sbc(c, op_code)
          [] m = "SEC" -> sec(c)
          [] m = "SED" -> sed(c)
          [] m = "SEI" -> sei(c)
          [] m = "STA" -> sta(c, op_code)
          [] m = "STX" -> stx(c, op_code)
          [] m = "STY" -> sty(c, op_code)
          [] m = "TAX" -> tax(c)
          [] m = "TAY" -> tay(c)
          [] m = "TSX" -> tsx(c)
          [] m = "TXA" -> txa(c)
          [] m = "TXS" -> txs(c)
          [] m = "TYA" -> tya(c)
          [] OTHER -> Panic(c, "dispatch")

\* an advance that steps back over the opcode byte
advance_program_counter_back(c, op_code_len) ==
    [c EXCEPT !.program_counter = c.program_counter - 1]

\* self.program_counter += (op_code_len - 1) as u16
advance_program_counter(c, op_code_len) ==
    LET sum == c.program_counter + (op_code_len - 1)
    IN  IF sum >= U16 /\ overflow_checks THEN Panic(c, "overflow")
        ELSE [c EXCEPT !.program_counter = sum % U16]

\* let code = self.mem_read(self.program_counter); self.program_counter += 1;
\* for a program_counter inside the array
Fetch(c) == [c EXCEPT !.program_counter = c.program_counter + 1]

\* the match and the advance_program_counter call after it; every arm falls
\* through to the call except BRK's return and a panic
\* (d is the CPU after the match, bound once)
Execute(c, op_code) ==
    CHOOSE r \in {IF d.ctl # "running" THEN d
                  ELSE advance_program_counter(d, op_code.len) :
                  d \in {Dispatch(c, op_code)}} : TRUE

\* one iteration of the loop of run(), for the row `op_code` as the lookup result
IterationWith(c, op_code) ==
    IF ~InBounds(c.program_counter) THEN Panic(c, "index")
    ELSE Execute(Fetch(c), op_code)

\* a loop that skips a byte the table does not know instead of panicking
RunIteration_skips_unknown(c) ==
    LET code == mem_read(c, c.program_counter)
    IN  IF ~InBounds(c.program_counter) THEN Panic(c, "index")
        ELSE IF code \notin DOMAIN NMOS_6502_OPCODES_MAP THEN Fetch(c)
        ELSE Execute(Fetch(c), NMOS_6502_OPCODES_MAP[code])

\* one iteration of the loop of run()
RunIteration(c) ==
    LET code == mem_read(c, c.program_counter)
    IN  IF ~InBounds(c.program_counter) THEN Panic(c, "index")
        ELSE IF code \notin DOMAIN NMOS_6502_OPCODES_MAP
             THEN Panic(Fetch(c), "decode")
        ELSE Execute(Fetch(c), NMOS_6502_OPCODES_MAP[code])

(***************************************************************************)
(* cpu.rs: reset and load.                                                 *)
(***************************************************************************)
RESET_VECTOR == \hFFFC

LOAD_ADDRESS == \h8000

\* a reset that goes to the load address without reading the vector
reset_to_load_address(c) ==
    [c EXCEPT !.register_a = 0, !.register_x = 0, !.register_y = 0,
              !.status = Processor_new,
              !.program_counter = LOAD_ADDRESS]

reset(c) ==
    [c EXCEPT !.register_a = 0, !.register_x = 0, !.register_y = 0,
              !.status = Processor_new,
              !.program_counter = mem_read_u16(c, RESET_VECTOR)]

\* self.memory[0x8000..(0x8000 + program.len())].copy_from_slice(&program[..])
copy_from_slice(mem, program) ==
    LET range == LOAD_ADDRESS .. (LOAD_ADDRESS + Len(program) - 1)
        keep == (DOMAIN mem) \ range
        put == {a \in range : program[a - LOAD_ADDRESS + 1] # 0}
    IN  [a \in keep \cup put |->
            IF a \in put THEN program[a - LOAD_ADDRESS + 1] ELSE mem[a]]

\* the range check of a memory of 0x10000 bytes
load_ok_64k(program) == LOAD_ADDRESS + Len(program) <= U16

\* the slice 0x8000..0x8000+len must end inside the array
load_ok(program) == LOAD_ADDRESS + Len(program) <= MEM_SIZE

load(c, program) ==
    IF ~load_ok(program) THEN Panic(c, "index")
    ELSE mem_write_u16([c EXCEPT !.memory = copy_from_slice(c.memory, program)],
                       RESET_VECTOR, LOAD_ADDRESS)

(***************************************************************************)
(* The state machine.  Cpu is the CPU the variables hold; an operation     *)
(* replaces it and records itself, with the CPU before it, in `last`.      *)
(***************************************************************************)
Cpu ==
    [register_a |-> register_a, register_x |-> register_x,
     register_y |-> register_y, status |-> status,
     program_counter |-> program_counter, stack |-> stack,
     memory |-> memory, ctl |-> ctl, fault |-> fault]

\* the CPU's fields take the values of record c; c is bound once, so that it
\* is computed once for the nine fields
Becomes(c) ==
    \E n \in {c} :
        /\ register_a' = n.register_a
        /\ register_x' = n.register_x
        /\ register_y' = n.register_y
        /\ status' = n.status
        /\ program_counter' = n.program_counter
        /\ stack' = n.stack
        /\ memory' = n.memory
        /\ ctl' = n.ctl
        /\ fault' = n.fault

Is(c) ==
    \E n \in {c} :
        /\ register_a = n.register_a
        /\ register_x = n.register_x
        /\ register_y = n.register_y
        /\ status = n.status
        /\ program_counter = n.program_counter
        /\ stack = n.stack
        /\ memory = n.memory
        /\ ctl = n.ctl
        /\ fault = n.fault

NoOpCode == OpCode(0, "none", 0, 0, "none")

NoCode == 0 - 1

\* op: what produced the state ("step" for an iteration of run's loop);
\* call, program: the public operation in progress or last made, and the
\* program it was given
Did(op, code, op_code, call, program) ==
    [op |-> op, code |-> code, op_code |-> op_code, call |-> call,
     program |-> program, pre |-> Cpu]

\* bounds of the model
MaxCalls == 2

MaxNops == 3

\* a caller may call the CPU when no call is in progress and none has panicked
Callable == ctl \in {"ready", "returned"} /\ calls < MaxCalls

Called(c, op, program) ==
    /\ Becomes(c)
    /\ calls' = calls + 1
    /\ last' = Did(op, NoCode, NoOpCode, op, program)
    /\ UNCHANGED overflow_checks

\* cpu.load(program)
Load(program) ==
    /\ Callable
    /\ LET c == load(Cpu, program)
       IN  Called(IF Panicked(c) THEN c ELSE [c EXCEPT !.ctl = "ready"],
                  "load", program)

\* cpu.reset()
Reset ==
    /\ Callable
    /\ Called([reset(Cpu) EXCEPT !.ctl = "ready"], "reset", <<>>)

\* cpu.run() is entered; Step runs its loop
Run ==
    /\ Callable
    /\ Called([Cpu EXCEPT !.ctl = "running"], "run", <<>>)

\* cpu.load_and_run(program): load, reset, and run() is entered
LoadAndRun(program) ==
    /\ Callable
    /\ LET c == load(Cpu, program)
       IN  Called(IF Panicked(c) THEN c
                  ELSE [reset(c) EXCEPT !.ctl = "running"],
                  "load_and_run", program)

\* cpu.mem_write(addr, data), as the tests set memory up
MemWrite(addr, data) ==
    /\ Callable
    /\ Called(IF ~InBounds(addr) THEN Panic(Cpu, "index")
              ELSE [mem_write(Cpu, addr, data) EXCEPT !.ctl = "ready"],
              "mem_write", <<addr, data>>)

\* the bit each flag of the status byte lives in
FlagBits == {0, 1, 2, 3, 6, 7}

\* cpu.status.set_<flag>(), the flag named by its bit
Processor_set(flags, b) ==
    CASE b = 0 -> set_carry(flags)
      [] b = 1 -> set_zero(flags)
      [] b = 2 -> set_interrupt(flags)
      [] b = 3 -> set_decimal(flags)
      [] b = 6 -> set_overflow(flags)
      [] b = 7 -> set_negative(flags)

\* cpu.status.clear_<flag>()
Processor_clear(flags, b) ==
    CASE b = 0 -> clear_carry(flags)
      [] b = 1 -> clear_zero(flags)
      [] b = 2 -> clear_interrupt(flags)
      [] b = 3 -> clear_decimal(flags)
      [] b = 6 -> clear_overflow(flags)
      [] b = 7 -> clear_negative(flags)

\* cpu.status.<flag>()
Processor_get(flags, b) ==
    CASE b = 0 -> carry(flags)
      [] b = 1 -> zero(flags)
      [] b = 2 -> interrupt(flags)
      [] b = 3 -> decimal(flags)
      [] b = 6 -> overflow(flags)
      [] b = 7 -> negative(flags)

\* cpu.status is a pub field and its set_/clear_ methods are pub
StatusSet(b) ==
    /\ Callable
    /\ Called([Cpu EXCEPT !.status = Processor_set(status, b), !.ctl = "ready"],
              "set", <<b>>)

StatusClear(b) ==
    /\ Callable
    /\ Called([Cpu EXCEPT !.status = Processor_clear(status, b),
                          !.ctl = "ready"],
              "clear", <<b>>)

\* cpu.stack is a pub field and decr_ptr / incr_ptr are pub
StackDecr ==
    /\ Callable
    /\ Called([Cpu EXCEPT !.stack = decr_ptr(stack), !.ctl = "ready"],
              "decr_ptr", <<>>)

StackIncr ==
    /\ Callable
    /\ Called([Cpu EXCEPT !.stack = incr_ptr(stack), !.ctl = "ready"],
              "incr_ptr", <<>>)

\* one iteration of the loop of run()
Step ==
    /\ ctl = "running"
    /\ Becomes(RunIteration(Cpu))
    /\ LET code == IF InBounds(program_counter)
                   THEN mem_read(Cpu, program_counter) ELSE NoCode
       IN  last' = Did("step", code,
                       IF code \in DOMAIN NMOS_6502_OPCODES_MAP
                       THEN NMOS_6502_OPCODES_MAP[code] ELSE NoOpCode,
                       last.call, last.program)
    /\ UNCHANGED << calls, overflow_checks >>

(***************************************************************************)
(* Spec: a caller drives a CPU made by CPU::new() through load, reset,     *)
(* run, load_and_run and mem_write.                                        *)
(***************************************************************************)
RECURSIVE Nops(_)
Nops(n) == IF n = 0 THEN <<>> ELSE <<\hEA>> \o Nops(n - 1)

\* LDA #v; STA $00; DEC $00
LdaStaDec(v) == <<\hA9, v, \h85, \h00, \hC6, \h00>>

Programs ==
    {LdaStaDec(v) : v \in {0, 5}}
    \cup {<<\hA9, v, \h00>> : v \in {0, 5, \h80}}
    \cup {Nops(n) : n \in 0 .. MaxNops}
    \cup {<<\hA9, \h11, \h85, \h00>>,
          <<\hA9, \h0A, \h91, \h00>>,
          <<\hA5, \h10, \h00>>}

MemWrites == {<<\h10, \h55>>, <<\hFFFC, \h02>>, <<\hFFFF, \h01>>}

Init ==
    /\ Is(CPU_new)
    /\ overflow_checks \in BOOLEAN
    /\ calls = 0
    /\ last = [op |-> "new", code |-> NoCode, op_code |-> NoOpCode,
               call |-> "new", program |-> <<>>, pre |-> CPU_new]

Next ==
    \/ \E program \in Programs : Load(program)
    \/ Reset
    \/ Run
    \/ \E program \in Programs : LoadAndRun(program)
    \/ \E w \in MemWrites : MemWrite(w[1], w[2])
    \/ \E b \in FlagBits : StatusSet(b)
    \/ \E b \in FlagBits : StatusClear(b)
    \/ StackDecr
    \/ StackIncr
    \/ Step

Spec == Init /\ [][Next]_vars

(***************************************************************************)
(* SpecStep and SpecCall: run() is at the top of its loop with the CPU in  *)
(* a state drawn from bounded sets (registers, status, an instruction at   *)
(* program_counter over a memory that holds data), and executes one        *)
(* iteration.  In SpecStep the row is the one the lookup map gives; in     *)
(* SpecCall it is a row of an instruction the table has no row for, so     *)
(* that the handlers the table cannot reach are executed as the loop       *)
(* would execute them.                                                     *)
(***************************************************************************)
ByteVals == {\h00, \h01, \h05, \h7F, \h80, \hFF}

HiVals == {\h00, \h30, \hFF}

RegVals == {\h00, \h01, \h80, \hFF}

IndexVals == {\h00, \h01, \hFF}

YVals == {\h00, \h02}

StatusVals == {\b00110000, \b00110001, \b11111111}

ExecPCs == {\h8000, \hFFFE}

\* the cells that hold data before the instruction is placed
DataCells ==
    {\h00, \h01, \h02, \h04, \h05, \h06, \h7E, \h7F, \h80, \h81, \h82,
     \hFE, \hFF, \h0100, \h0101, \h3000, \h3001, \h3005, \h30FF, \h3100}

Pattern(addr) == LET v == (addr * 7 + \h81) % U8 IN IF v = 0 THEN 1 ELSE v

Background == [a \in DataCells |-> Pattern(a)]

RECURSIVE Place(_, _, _)
Place(mem, addr, bytes) ==
    IF bytes = <<>> \/ ~InBounds(addr) THEN mem
    ELSE Place(Store(mem, addr, Head(bytes)), addr + 1, Tail(bytes))

Image(pc, bytes) == Place(Background, pc, bytes)

ExecInit(code, b1, b2, a, x, y, st, pc) ==
    LET c == [register_a |-> a, register_x |-> x, register_y |-> y,
              status |-> st, program_counter |-> pc,
              stack |-> Stack_new(STACK_BOTTOM, STACK_TOP),
              memory |-> Image(pc, <<code, b1, b2>>),
              ctl |-> "running", fault |-> "none"]
    IN  /\ Is(c)
        /\ overflow_checks \in BOOLEAN
        /\ calls = 1
        /\ last = [op |-> "run", code |-> NoCode, op_code |-> NoOpCode,
                   call |-> "run", program |-> <<>>, pre |-> Cpu]

\* bytes no row of the table carries: an undefined opcode, NOP, DEC zero page
UnknownCodes == {\h02, \hEA, \hC6}

StepCodes == (DOMAIN NMOS_6502_OPCODES_MAP) \cup UnknownCodes

StepOperands1(code) == IF code = \hA9 THEN 0 .. 255 ELSE ByteVals

StepOperands2(code) ==
    IF code \in DOMAIN NMOS_6502_OPCODES_MAP
       /\ NMOS_6502_OPCODES_MAP[code].len = 3
    THEN HiVals ELSE {0}

InitStep ==
    \E code \in StepCodes, a \in RegVals, x \in IndexVals, y \in YVals,
       st \in StatusVals, pc \in ExecPCs :
        \E b1 \in StepOperands1(code), b2 \in StepOperands2(code) :
            ExecInit(code, b1, b2, a, x, y, st, pc)

NextStep == Step

SpecStep == InitStep /\ [][NextStep]_vars

\* rows for instructions the table has no row for, with the opcode bytes the
\* tests of cpu.rs and the 6502 give them
CallOpCodes ==
    {OpCode(\hC9, "CMP", 2, 2, "Immediate"),
     OpCode(\hC5, "CMP", 2, 3, "ZeroPage"),
     OpCode(\hE0, "CPX", 2, 2, "Immediate"),
     OpCode(\hC0, "CPY", 2, 2, "Immediate"),
     OpCode(\h2A, "ROL", 1, 2, "NoneAddressing"),
     OpCode(\h26, "ROL", 2, 5, "ZeroPage"),
     OpCode(\h6A, "ROR", 1, 2, "NoneAddressing"),
     OpCode(\h66, "ROR", 2, 5, "ZeroPage"),
     OpCode(\h4C, "JMP", 3, 3, "Absolute"),
     OpCode(\h6C, "JMP", 3, 5, "Indirect"),
     OpCode(\h6C, "JMP", 3, 5, "NoneAddressing"),
     OpCode(\hEA, "NOP", 1, 2, "NoneAddressing"),
     OpCode(\h20, "JSR", 3, 6, "Absolute"),
     OpCode(\h60, "RTS", 1, 6, "NoneAddressing"),
     OpCode(\h48, "PHA", 1, 3, "NoneAddressing"),
     OpCode(\h68, "PLA", 1, 4, "NoneAddressing"),
     OpCode(\hBA, "TSX", 1, 2, "NoneAddressing")}

\* rows that are executed on every value of the byte they work on
ValueOpCodes ==
    {OpCode(\hE8, "INX", 1, 2, "NoneAddressing"),
     OpCode(\hC8, "INY", 1, 2, "NoneAddressing"),
     OpCode(\hE6, "INC", 2, 5, "ZeroPage"),
     OpCode(\hCA, "DEX", 1, 2, "NoneAddressing"),
     OpCode(\h88, "DEY", 1, 2, "NoneAddressing"),
     OpCode(\hC6, "DEC", 2, 5, "ZeroPage"),
     OpCode(\h0A, "ASL", 1, 2, "NoneAddressing"),
     OpCode(\h06, "ASL", 2, 5, "ZeroPage"),
     OpCode(\h4A, "LSR", 1, 2, "NoneAddressing"),
     OpCode(\h46, "LSR", 2, 5, "ZeroPage"),
     OpCode(\hAA, "TAX", 1, 2, "NoneAddressing"),
     OpCode(\hA8, "TAY", 1, 2, "NoneAddressing"),
     OpCode(\h8A, "TXA", 1, 2, "NoneAddressing"),
     OpCode(\h98, "TYA", 1, 2, "NoneAddressing"),
     OpCode(\h9A, "TXS", 1, 2, "NoneAddressing")}

\* the byte such a row works on: A, X, Y, or the cell its operand names
ValuesOfA(code) ==
    IF code \in {\h0A, \h4A, \hAA, \hA8} THEN 0 .. U8 - 1 ELSE {\h2A}

ValuesOfX(code) ==
    IF code \in {\hE8, \hCA, \h8A, \h9A} THEN 0 .. U8 - 1 ELSE {\h2B}

ValuesOfY(code) ==
    IF code \in {\hC8, \h88, \h98} THEN 0 .. U8 - 1 ELSE {\h2C}

ValuesOfCell(code) ==
    IF code \in {\hE6, \hC6, \h06, \h46} THEN 0 .. U8 - 1 ELSE {\h2D}

\* as ExecInit, with the operand byte naming cell 0x05 and v in that cell
ExecInitValue(code, a, x, y, st, pc, v) ==
    LET c == [register_a |-> a, register_x |-> x, register_y |-> y,
              status |-> st, program_counter |-> pc,
              stack |-> Stack_new(STACK_BOTTOM, STACK_TOP),
              memory |-> Store(Image(pc, <<code, \h05, \h00>>), \h05, v),
              ctl |-> "running", fault |-> "none"]
    IN  /\ Is(c)
        /\ overflow_checks \in BOOLEAN
        /\ calls = 1
        /\ last = [op |-> "run", code |-> NoCode, op_code |-> NoOpCode,
                   call |-> "run", program |-> <<>>, pre |-> Cpu]

CallCodes == {op.code : op \in CallOpCodes}

CallOperands2(code) ==
    IF \E op \in CallOpCodes : op.code = code /\ op.len = 3
    THEN HiVals ELSE {0}

\* one iteration of the loop of run() with `op_code` for the looked-up row
Call(op_code) ==
    /\ ctl = "running"
    /\ InBounds(program_counter)
    /\ mem_read(Cpu, program_counter) = op_code.code
    /\ Becomes(IterationWith(Cpu, op_code))
    /\ last' = Did("step", op_code.code, op_code, last.call, last.program)
    /\ UNCHANGED << calls, overflow_checks >>

InitCall ==
    \/ \E code \in CallCodes, a \in RegVals, x \in IndexVals, y \in YVals,
          st \in StatusVals, pc \in ExecPCs :
           \E b1 \in ByteVals, b2 \in CallOperands2(code) :
               ExecInit(code, b1, b2, a, x, y, st, pc)
    \/ \E op_code \in ValueOpCodes, st \in StatusVals, pc \in ExecPCs :
           \E a \in ValuesOfA(op_code.code), x \in ValuesOfX(op_code.code),
              y \in ValuesOfY(op_code.code), v \in ValuesOfCell(op_code.code) :
               ExecInitValue(op_code.code, a, x, y, st, pc, v)

NextCall == \E op_code \in CallOpCodes \cup ValueOpCodes : Call(op_code)

SpecCall == InitCall /\ [][NextCall]_vars

(***************************************************************************)
(* SpecLoad: load() is called, once or more, on a CPU whose registers and  *)
(* memory hold values, with programs up to and past the longest the slice  *)
(* of load() accepts.                                                      *)
(***************************************************************************)
\* the longest program the slice of load() accepts
MAX_PROGRAM_LEN == MEM_SIZE - LOAD_ADDRESS

\* a program of n bytes: LDA #0, then zeros (BRK), with bytes of its own
\* where the reset vector's cells are and a last byte
LongProgram(n) ==
    [i \in 1 .. n |->
        IF i = 1 THEN \hA9
        ELSE IF i = RESET_VECTOR - LOAD_ADDRESS + 1 THEN \h34
        ELSE IF i = RESET_VECTOR - LOAD_ADDRESS + 2 THEN \h12
        ELSE IF i = n THEN \h77
        ELSE 0]

LoadPrograms ==
    {LongProgram(MAX_PROGRAM_LEN), LongProgram(MAX_PROGRAM_LEN + 1),
     <<>>, <<\hEA>>, LdaStaDec(5), <<\hA9, \h00, \h00>>}

\* memory before the load: empty, or data below the program, where programs
\* go, on the reset vector and on the last cell
LoadMemories ==
    {<< >>,
     Store(Store(Store(Store(Store(Background, \h8000, \h11), \h8003, \h22),
                       \hFFFC, \h02), \hFFFD, \h03), \hFFFE, \h44)}

InitLoad ==
    \E a \in {\h05}, pc \in {\h0000, \h8003}, st \in StatusVals,
       m \in LoadMemories :
        LET c == [register_a |-> a, register_x |-> a, register_y |-> a,
                  status |-> st, program_counter |-> pc,
                  stack |-> Stack_new(STACK_BOTTOM, STACK_TOP),
                  memory |-> m, ctl |-> "ready", fault |-> "none"]
        IN  /\ Is(c)
            /\ overflow_checks \in BOOLEAN
            /\ calls = 0
            /\ last = [op |-> "new", code |-> NoCode, op_code |-> NoOpCode,
                       call |-> "new", program |-> <<>>, pre |-> Cpu]

\* bound of SpecLoad: the loads made on one CPU
MaxLoads == 1

NextLoad == \E program \in LoadPrograms : calls < MaxLoads /\ Load(program)

SpecLoad == InitLoad /\ [][NextLoad]_vars

(***************************************************************************)
(* SpecFlags: the set_/clear_ methods of Processor and the flag            *)
(* instructions' handlers, called directly as the tests of processor.rs    *)
(* and test_status_flags call them, on every status byte.                  *)
(***************************************************************************)
FlagOpCodes ==
    {OpCode(\h38, "SEC", 1, 2, "NoneAddressing"),
     OpCode(\h18, "CLC", 1, 2, "NoneAddressing"),
     OpCode(\hF8, "SED", 1, 2, "NoneAddressing"),
     OpCode(\hD8, "CLD", 1, 2, "NoneAddressing"),
     OpCode(\h78, "SEI", 1, 2, "NoneAddressing"),
     OpCode(\h58, "CLI", 1, 2, "NoneAddressing"),
     OpCode(\hB8, "CLV", 1, 2, "NoneAddressing")}

\* processor.set_<flag>()
SetFlag(b) ==
    /\ ctl = "ready"
    /\ Becomes([Cpu EXCEPT !.status = Processor_set(status, b)])
    /\ last' = Did("set", NoCode, NoOpCode, "set", <<b>>)
    /\ UNCHANGED << calls, overflow_checks >>

\* processor.clear_<flag>()
ClearFlag(b) ==
    /\ ctl = "ready"
    /\ Becomes([Cpu EXCEPT !.status = Processor_clear(status, b)])
    /\ last' = Did("clear", NoCode, NoOpCode, "clear", <<b>>)
    /\ UNCHANGED << calls, overflow_checks >>

\* cpu.sec(), cpu.clc(), ...: the handler run() dispatches the mnemonic to
FlagInstruction(op_code) ==
    /\ ctl = "ready"
    /\ Becomes(Dispatch(Cpu, op_code))
    /\ last' = Did("handler", op_code.code, op_code, "handler", <<>>)
    /\ UNCHANGED << calls, overflow_checks >>

InitFlags ==
    \E st \in 0 .. U8 - 1 :
        LET c == [CPU_new EXCEPT !.status = st]
        IN  /\ Is(c)
            /\ overflow_checks \in BOOLEAN
            /\ calls = 0
            /\ last = [op |-> "new", code |-> NoCode, op_code |-> NoOpCode,
                       call |-> "new", program |-> <<>>, pre |-> Cpu]

NextFlags ==
    \/ \E b \in FlagBits : SetFlag(b)
    \/ \E b \in FlagBits : ClearFlag(b)
    \/ \E op_code \in FlagOpCodes : FlagInstruction(op_code)

SpecFlags == InitFlags /\ [][NextFlags]_vars

(***************************************************************************)
(* SpecUpdate: update_zero_and_negative_flags applied to the byte in A,    *)
(* for every byte and every status byte.                                   *)
(***************************************************************************)
InitUpdate ==
    \E st \in 0 .. U8 - 1, result \in 0 .. U8 - 1 :
        LET c == [CPU_new EXCEPT !.status = st, !.register_a = result]
        IN  /\ Is(c)
            /\ overflow_checks \in BOOLEAN
            /\ calls = 0
            /\ last = [op |-> "new", code |-> NoCode, op_code |-> NoOpCode,
                       call |-> "new", program |-> <<>>, pre |-> Cpu]

\* self.update_zero_and_negative_flags(self.register_a)
UpdateFlags ==
    /\ ctl = "ready"
    /\ Becomes(update_zero_and_negative_flags(Cpu, register_a))
    /\ last' = Did("update", register_a, NoOpCode, "update", <<>>)
    /\ UNCHANGED << calls, overflow_checks >>

NextUpdate == UpdateFlags

SpecUpdate == InitUpdate /\ [][NextUpdate]_vars

(***************************************************************************)
(* SpecAddr: get_operand_address called with program_counter on a base     *)
(* byte, for every base byte and every value of X and of Y, over a memory  *)
(* that holds data in page 0 and at 0x0100.                                *)
(***************************************************************************)
AddrModes == {"ZeroPage", "ZeroPage_X", "ZeroPage_Y", "Indirect_X"}

InitAddr ==
    \E base \in 0 .. U8 - 1, index \in 0 .. U8 - 1 :
        LET c == [CPU_new EXCEPT
                    !.register_x = index,
                    !.register_y = (index * 3 + 1) % U8,
                    !.program_counter = LOAD_ADDRESS + 1,
                    !.memory = Place(Store(Store(Background, \h0100, \h33),
                                           \h0101, \h44),
                                     LOAD_ADDRESS + 1, <<base>>),
                    !.ctl = "running"]
        IN  /\ Is(c)
            /\ overflow_checks \in BOOLEAN
            /\ calls = 1
            /\ last = [op |-> "run", code |-> NoCode, op_code |-> NoOpCode,
                       call |-> "run", program |-> <<>>, pre |-> Cpu]

\* let addr = self.get_operand_address(&mode); the address is kept in
\* last.code and the mode in last.call
Resolve(mode) ==
    /\ ctl = "running"
    /\ LET r == get_operand_address(Cpu, mode)
       IN  /\ Becomes(IF r.fault = "none" THEN Cpu ELSE Panic(Cpu, r.fault))
           /\ last' = Did("resolve", r.addr, NoOpCode, mode, <<>>)
    /\ UNCHANGED << calls, overflow_checks >>

NextAddr == \E mode \in AddrModes : Resolve(mode)

SpecAddr == InitAddr /\ [][NextAddr]_vars

(***************************************************************************)
(* SpecStack: decr_ptr and incr_ptr called, in any order and any number of *)
(* times, on the stack of a new CPU.                                       *)
(***************************************************************************)
\* stack.decr_ptr()
DecrPtr ==
    /\ ctl = "ready"
    /\ Becomes([Cpu EXCEPT !.stack = decr_ptr(stack)])
    /\ last' = Did("decr_ptr", NoCode, NoOpCode, "decr_ptr", <<>>)
    /\ UNCHANGED << calls, overflow_checks >>

\* stack.incr_ptr()
IncrPtr ==
    /\ ctl = "ready"
    /\ Becomes([Cpu EXCEPT !.stack = incr_ptr(stack)])
    /\ last' = Did("incr_ptr", NoCode, NoOpCode, "incr_ptr", <<>>)
    /\ UNCHANGED << calls, overflow_checks >>

NextStack == DecrPtr \/ IncrPtr

SpecStack == Init /\ [][NextStack]_vars

(***************************************************************************)
(* SpecRun: run() on an instruction of SpecStep and on memories whose last *)
(* cells are filled with one opcode byte of the table, so that the run     *)
(* walks to the end of memory; the loop of run() keeps iterating until it  *)
(* returns or panics.                                                      *)
(***************************************************************************)
\* the bytes the last cells are filled with: TAX, LDA #, LDA zp, STA abs
FillCodes == {\h91, \hA9, \hA5, \h8D}

FillStarts == {\hFFF1, \hFFFE, \hFFFF}

\* memory holding `code` in every cell from `start` to the last one
Filled(start, code) == [a \in start .. (MEM_SIZE - 1) |-> code]

InitRun ==
    \/ \E code \in StepCodes, pc \in ExecPCs :
          ExecInit(code, \h05, \h30, \h80, \h01, \h02, Processor_new, pc)
    \/ \E code \in FillCodes, start \in FillStarts, a \in {\h91} :
          LET c == [CPU_new EXCEPT !.register_a = a,
                                   !.program_counter = start,
                                   !.memory = Filled(start, code),
                                   !.ctl = "running"]
          IN  /\ Is(c)
              /\ overflow_checks \in BOOLEAN
              /\ calls = 1
              /\ last = [op |-> "run", code |-> NoCode, op_code |-> NoOpCode,
                         call |-> "run", program |-> <<>>, pre |-> Cpu]

SpecRun == InitRun /\ [][NextStep]_vars /\ WF_vars(NextStep)

(***************************************************************************)
(* The claims.  `last.pre` is the CPU before the operation that produced   *)
(* the state; for a step its program_counter is the address of the opcode  *)
(* byte.                                                                   *)
(***************************************************************************)
Stepped == last.op = "step"

SteppedCode(code) == Stepped /\ last.code = code

SteppedRow(mnemonic) == Stepped /\ last.op_code.mnemonic = mnemonic

\* the bytes of the instruction lie inside the memory array
InstrInside(p, len) == p.program_counter + len - 1 < MEM_SIZE

\* the bytes after the opcode byte, as the program wrote them
Operand8(p) == mem_read(p, p.program_counter + 1)

Operand16(p) ==
    mem_read(p, p.program_counter + 1)
    + 256 * mem_read(p, p.program_counter + 2)

Flag(b) == IF b THEN 1 ELSE 0

\* load_and_run(program) was the first call on the CPU and its run() has ended
FreshRunEnded(program) ==
    /\ calls = 1
    /\ last.call = "load_and_run"
    /\ last.program = program
    /\ Stepped
    /\ ctl \in {"returned", "panicked"}

SameRegistersAndMemory(p) ==
    /\ register_a = p.register_a
    /\ register_x = p.register_x
    /\ register_y = p.register_y
    /\ stack = p.stack
    /\ memory = p.memory

\* C1: load_and_run of LDA #v; STA $00; DEC $00 on a fresh CPU ends normally
\* at BRK with A = v and memory[0x0000] = (v - 1) mod 256, for every v.
C1_LdaStaDecRuns ==
    \A v \in 0 .. 255 :
        FreshRunEnded(LdaStaDec(v))
            => /\ ctl = "returned"
               /\ register_a = v
               /\ mem_read(Cpu, \h0000) = wrapping_sub8(v, 1)

\* C2: a step that executes LDA #v (0xA9 followed by v) sets A = v, Zero iff
\* v = 0, Negative iff bit 7 of v, and leaves X, Y, memory, the stack pointer
\* and Carry, Interrupt, Decimal, Overflow as they were.
C2_LdaImmediate ==
    (SteppedCode(\hA9) /\ InstrInside(last.pre, 2)) =>
        LET p == last.pre
            v == Operand8(p)
        IN  /\ ctl = "running"
            /\ register_a = v
            /\ zero(status) = Flag(v = 0)
            /\ negative(status) = Bit(v, 7)
            /\ register_x = p.register_x
            /\ register_y = p.register_y
            /\ memory = p.memory
            /\ stack = p.stack
            /\ carry(status) = carry(p.status)
            /\ interrupt(status) = interrupt(p.status)
            /\ decimal(status) = decimal(p.status)
            /\ overflow(status) = overflow(p.status)

\* C2 witness: LDA #0xC3 executed over A = 0x01 with every flag set
C2_Witness ==
    /\ SteppedCode(\hA9)
    /\ Operand8(last.pre) = \hC3
    /\ last.pre.register_a = \h01
    /\ last.pre.status = \b11111111
    /\ register_a = \hC3
    /\ zero(status) = 0

\* C3: after CMP #m (r = A) or CPX #m (r = X): Carry = 1 iff r >= m, Zero = 1
\* iff r = m, Negative = bit 7 of (r - m) mod 256; registers and memory are
\* unchanged.
C3_CompareFlags ==
    ((SteppedCode(\hC9) \/ SteppedCode(\hE0)) /\ InstrInside(last.pre, 2)) =>
        LET p == last.pre
            m == Operand8(p)
            r == IF last.code = \hC9 THEN p.register_a ELSE p.register_x
        IN  /\ ctl = "running"
            /\ carry(status) = Flag(r >= m)
            /\ zero(status) = Flag(r = m)
            /\ negative(status) = Bit(wrapping_sub8(r, m), 7)
            /\ SameRegistersAndMemory(p)

\* C4: CPY #m completes without fault for every Y and m, with Carry = 1 iff
\* Y >= m, Zero = 1 iff Y = m, Negative = bit 7 of (Y - m) mod 256.
C4_CpyFlags ==
    (SteppedCode(\hC0) /\ InstrInside(last.pre, 2)) =>
        LET p == last.pre
            m == Operand8(p)
            y == p.register_y
        IN  /\ ctl = "running"
            /\ carry(status) = Flag(y >= m)
            /\ zero(status) = Flag(y = m)
            /\ negative(status) = Bit(wrapping_sub8(y, m), 7)

\* C5: ROL (0x2A on A, or a memory form) gives ((d << 1) mod 256) | c, sets
\* Carry to the old bit 7 of d, and Zero and Negative from the result.
C5_RolResult ==
    (SteppedRow("ROL") /\ InstrInside(last.pre, last.op_code.len)) =>
        LET p == last.pre
            acc == last.code = \h2A
            addr == Operand8(p)
            d == IF acc THEN p.register_a ELSE mem_read(p, addr)
            r == ((d * 2) % U8) + carry(p.status)
            result == IF acc THEN register_a ELSE mem_read(Cpu, addr)
        IN  /\ ctl = "running"
            /\ result = r
            /\ carry(status) = Bit(d, 7)
            /\ zero(status) = Flag(r = 0)
            /\ negative(status) = Bit(r, 7)

\* C6: ROR gives (d >> 1) | (c << 7) and sets Carry to the old bit 0 of d;
\* opcode 0x6A rotates A and leaves memory unchanged, every other ROR opcode
\* rotates the memory operand.
C6_RorResult ==
    (SteppedRow("ROR") /\ InstrInside(last.pre, last.op_code.len)) =>
        LET p == last.pre
            acc == last.code = \h6A
            addr == Operand8(p)
            d == IF acc THEN p.register_a ELSE mem_read(p, addr)
            r == (d \div 2) + 128 * carry(p.status)
            result == IF acc THEN register_a ELSE mem_read(Cpu, addr)
        IN  /\ ctl = "running"
            /\ result = r
            /\ carry(status) = Bit(d, 0)
            /\ acc => memory = p.memory
            /\ ~acc => register_a = p.register_a

\* the target of an indirect JMP with the page-boundary bug: the high byte comes
\* from the start of the pointer's page when the pointer's low byte is 0xFF
IndirectTarget(p, pointer) ==
    LET hi_at == IF pointer % 256 = \hFF THEN pointer - \hFF ELSE pointer + 1
    IN  mem_read(p, pointer) + 256 * mem_read(p, hi_at)

\* C7: the target jmp forms for an indirect JMP (the arm of jmp that
\* dereferences the operand) takes its low byte at the pointer and its high
\* byte at pointer + 1, or at pointer & 0xFF00 when the pointer's low byte is
\* 0xFF.
C7_IndirectJmpTarget ==
    (SteppedCode(\h6C) /\ last.op_code.mode = "NoneAddressing"
       /\ InstrInside(last.pre, 3) /\ Operand16(last.pre) + 1 < MEM_SIZE) =>
        LET p == last.pre
            j == jmp(Fetch(p), last.op_code)
        IN  /\ ~Panicked(j)
            /\ j.program_counter = IndirectTarget(p, Operand16(p))

\* C8: after one complete step of a JMP, program_counter is exactly the target.
C8_JmpLandsOnTarget ==
    (SteppedCode(\h4C) /\ InstrInside(last.pre, 3)) =>
        /\ ctl = "running"
        /\ program_counter = Operand16(last.pre)

\* the mnemonics that redirect control flow or end the run
ControlFlow ==
    {"JMP", "JSR", "RTS", "RTI", "BRK", "BCC", "BCS", "BEQ", "BNE", "BMI",
     "BPL", "BVC", "BVS"}

\* C9: a step that executes an instruction that is no jump, branch, call,
\* return or BRK leaves program_counter = opcode address + len, and so n NOPs
\* loaded at 0x8000 and followed by a zero byte end with program_counter =
\* 0x8000 + n + 1.
C9_AdvanceByLength ==
    /\ (Stepped /\ ctl = "running" /\ last.op_code.mnemonic \notin ControlFlow)
          => program_counter = last.pre.program_counter + last.op_code.len
    /\ \A n \in 0 .. MaxNops :
          FreshRunEnded(Nops(n))
              => program_counter = LOAD_ADDRESS + n + 1

\* C10: run() returns as soon as the fetched opcode byte is 0x00: the BRK step
\* ends the run changing nothing but program_counter, and a run that has
\* returned has executed nothing after its BRK.
C10_BrkReturns ==
    /\ SteppedCode(\h00) =>
          /\ ctl = "returned"
          /\ fault = "none"
          /\ SameRegistersAndMemory(last.pre)
          /\ status = last.pre.status
          /\ program_counter = last.pre.program_counter + 1
    /\ ctl = "returned" => SteppedCode(\h00)

\* C10 witness: the BRK after LDA #0x80 returned, leaving A and the flags of LDA
C10_Witness ==
    /\ SteppedCode(\h00)
    /\ ctl = "returned"
    /\ program_counter = \h8003
    /\ register_a = \h80
    /\ negative(status) = 1
    /\ mem_read(Cpu, \h8000) = \hA9

\* C11: a run() that stops, stops at a fetched BRK (it returns) or on a byte
\* absent from the opcode table (decode fault); no index or overflow fault
\* ends a run.
C11_RunStopsByBrkOrDecode ==
    (Stepped /\ ctl \in {"returned", "panicked"}) =>
        \/ ctl = "returned" /\ last.code = \h00
        \/ ctl = "panicked" /\ fault = "decode"

\* the byte the step fetched is no code of the lookup map
UnknownByte ==
    Stepped /\ last.code \in (0 .. U8 - 1) \ DOMAIN NMOS_6502_OPCODES_MAP

\* C12: a step that fetches a byte the opcode table does not carry ends run()
\* with a decode fault; A, X, Y, the flags, the stack pointer and memory are
\* as before the step and no further step is taken.
C12_UnknownByteFaults ==
    UnknownByte =>
        /\ ctl = "panicked"
        /\ fault = "decode"
        /\ SameRegistersAndMemory(last.pre)
        /\ status = last.pre.status
        /\ ~ENABLED Step

\* C12 witness: the byte 0xEA fetched with A = 0x80 and every flag set
C12_Witness ==
    /\ SteppedCode(\hEA)
    /\ fault = "decode"
    /\ last.pre.register_a = \h80
    /\ last.pre.status = \b11111111
    /\ register_a = \h80

\* C13: mem_write(addr, data) succeeds for every 16-bit address, 0xFFFF
\* included, and a read of addr then returns data.
C13_MemoryIs64K ==
    last.op = "mem_write" =>
        /\ ctl # "panicked"
        /\ mem_read(Cpu, last.program[1]) = last.program[2]

LoadAccepted == last.op = "load" /\ ctl # "panicked"

ResetVectorCells == {RESET_VECTOR, RESET_VECTOR + 1}

\* C14: after an accepted load(program) the reset vector cells hold 0x00 and
\* 0x80, every other cell 0x8000 + i holds byte i of the program, every cell
\* outside both holds what it held, and A, X, Y, the flags, program_counter
\* and the stack pointer are unchanged.
C14_LoadCopiesAndSetsVector ==
    LoadAccepted =>
        LET program == last.program
            p == last.pre
            cells == LOAD_ADDRESS .. (LOAD_ADDRESS + Len(program) - 1)
        IN  /\ mem_read(Cpu, RESET_VECTOR) = \h00
            /\ mem_read(Cpu, RESET_VECTOR + 1) = \h80
            /\ \A addr \in cells \ ResetVectorCells :
                  mem_read(Cpu, addr) = program[addr - LOAD_ADDRESS + 1]
            /\ \A addr \in ((DOMAIN memory) \cup (DOMAIN p.memory))
                             \ (cells \cup ResetVectorCells) :
                  mem_read(Cpu, addr) = mem_read(p, addr)
            /\ register_a = p.register_a
            /\ register_x = p.register_x
            /\ register_y = p.register_y
            /\ status = p.status
            /\ program_counter = p.program_counter
            /\ stack = p.stack

\* C14 witness: the longest program loaded over a memory that held data and
\* another vector; its last byte is at 0xFFFE and the vector reads 0x8000
C14_Witness ==
    /\ LoadAccepted
    /\ Len(last.program) = \h7FFF
    /\ mem_read(last.pre, RESET_VECTOR) = \h02
    /\ mem_read(last.pre, \h01) # 0
    /\ mem_read(Cpu, \h01) = mem_read(last.pre, \h01)
    /\ mem_read(Cpu, \hFFFE) = \h77
    /\ mem_read_u16(Cpu, RESET_VECTOR) = \h8000

\* C15: load(program) fails exactly when the program is longer than 0x7FFF
\* bytes, and a failed load leaves memory as it was.
C15_LoadFailsOnlyWhenTooLong ==
    last.op = "load" =>
        /\ (ctl = "panicked") <=> (Len(last.program) > \h7FFF)
        /\ ctl = "panicked" => memory = last.pre.memory

\* C15 witness: a program of 0x8000 bytes refused over a memory holding data
C15_Witness ==
    /\ last.op = "load"
    /\ Len(last.program) = \h8000
    /\ ctl = "panicked"
    /\ mem_read(Cpu, RESET_VECTOR) = \h02
    /\ mem_read(Cpu, \h8000) = \h11

\* C16: reset() leaves A = X = Y = 0, the status byte 0b0011_0000,
\* program_counter the little-endian word at 0xFFFC/0xFFFD and memory as it
\* was.
C16_ResetState ==
    last.op = "reset" =>
        /\ register_a = 0
        /\ register_x = 0
        /\ register_y = 0
        /\ status = \b00110000
        /\ program_counter = mem_read(last.pre, \hFFFC)
                             + 256 * mem_read(last.pre, \hFFFD)
        /\ memory = last.pre.memory

\* C16 witness: reset after load_and_run of LDA #5; BRK
C16_Witness ==
    /\ last.op = "reset"
    /\ last.pre.register_a = \h05
    /\ last.pre.program_counter = \h8003
    /\ register_a = 0
    /\ program_counter = \h8000

\* C17: reset() leaves the stack pointer at 0xFF whatever it was before.
C17_ResetStackPointer == last.op = "reset" => stack = \hFF

\* the rows of the table that carry a code
RowsWithCode(code) ==
    {i \in DOMAIN NMOS_6502_OPCODES : NMOS_6502_OPCODES[i].code = code}

\* C18: the byte a step decodes is carried by exactly one row of the opcode
\* table, and the row the lookup returned is that row.
C18_OneRowPerCode ==
    (Stepped /\ last.code \in DOMAIN NMOS_6502_OPCODES_MAP) =>
        /\ Cardinality(RowsWithCode(last.code)) = 1
        /\ \A i \in RowsWithCode(last.code) :
              last.op_code = NMOS_6502_OPCODES[i]

\* C19: bits 4 and 5 of the status byte are 1 in every reachable state.
C19_Bits45Set == Bit(status, 4) = 1 /\ Bit(status, 5) = 1

\* C19 witness: clear_overflow() after set_overflow()
C19_Witness ==
    /\ last.op = "clear"
    /\ last.program = <<6>>
    /\ last.pre.status = \b01110000
    /\ status = \b00110000

\* the bits of the status byte other than b are as in `flags`
OtherBitsAsIn(flags, b) ==
    \A n \in (0 .. 7) \ {b} : Bit(status, n) = Bit(flags, n)

\* the flag a flag instruction writes and the value it gives it
FlagOf(mnemonic) ==
    CASE mnemonic = "SEC" -> <<0, 1>>
      [] mnemonic = "CLC" -> <<0, 0>>
      [] mnemonic = "SED" -> <<3, 1>>
      [] mnemonic = "CLD" -> <<3, 0>>
      [] mnemonic = "SEI" -> <<2, 1>>
      [] mnemonic = "CLI" -> <<2, 0>>
      [] mnemonic = "CLV" -> <<6, 0>>

\* C20: for every status byte and each of the six flags, set_F makes F() read
\* 1, clear_F makes it read 0, neither changes another bit, and SEC, CLC,
\* SED, CLD, SEI, CLI, CLV write their own flag and nothing else.
C20_FlagsIndependent ==
    /\ last.op = "set" =>
          /\ Processor_get(status, last.program[1]) = 1
          /\ OtherBitsAsIn(last.pre.status, last.program[1])
    /\ last.op = "clear" =>
          /\ Processor_get(status, last.program[1]) = 0
          /\ OtherBitsAsIn(last.pre.status, last.program[1])
    /\ last.op = "handler" =>
          LET f == FlagOf(last.op_code.mnemonic)
          IN  /\ Processor_get(status, f[1]) = f[2]
              /\ OtherBitsAsIn(last.pre.status, f[1])
              /\ SameRegistersAndMemory(last.pre)
              /\ program_counter = last.pre.program_counter
              /\ ctl = "ready"

\* C20 witness: clear_negative() on a status byte with every bit set
C20_Witness ==
    /\ last.op = "clear"
    /\ last.program = <<7>>
    /\ last.pre.status = \b11111111
    /\ status = \b01111111

\* C21: after update_zero_and_negative_flags(result), for every byte result
\* and every status byte before it: Zero = 1 iff result = 0, Negative = bit 7
\* of result, never both 1, and Carry, Interrupt, Decimal, Overflow and bits
\* 4 and 5 are as before.
C21_UpdateZeroNegative ==
    last.op = "update" =>
        LET result == last.code
        IN  /\ zero(status) = Flag(result = 0)
            /\ negative(status) = Bit(result, 7)
            /\ ~(zero(status) = 1 /\ negative(status) = 1)
            /\ \A n \in {0, 2, 3, 4, 5, 6} :
                  Bit(status, n) = Bit(last.pre.status, n)
            /\ SameRegistersAndMemory(last.pre)

\* C21 witness: result 0 over a status byte with Negative set and Zero clear
C21_Witness ==
    /\ last.op = "update"
    /\ last.code = 0
    /\ last.pre.status = \b11111101
    /\ status = \b01111111

\* Zero and Negative are as update_zero_and_negative leaves them for `result`
ZeroNegativeOf(result) ==
    /\ zero(status) = Flag(result = 0)
    /\ negative(status) = Bit(result, 7)

\* the step executed its instruction and the loop goes on
StepDone == ctl = "running" /\ fault = "none"

StackCell(ptr) == \h0100 + ptr

\* C23: JSR at p pushes p + 2 (high byte, then low byte) and goes to its
\* target; RTS pops that word and continues at it plus 1, with the stack
\* pointer back where it was: JSR then RTS continues at p + 3.
C23_JsrRtsRoundTrip ==
    LET p == last.pre
    IN  /\ (SteppedRow("JSR") /\ InstrInside(p, 3)) =>
              /\ StepDone
              /\ stack = wrapping_sub8(p.stack, 2)
              /\ mem_read(Cpu, StackCell(p.stack)) * 256
                 + mem_read(Cpu, StackCell(wrapping_sub8(p.stack, 1)))
                    = p.program_counter + 2
        /\ SteppedRow("RTS") =>
              /\ StepDone
              /\ stack = wrapping_add8(p.stack, 2)
              /\ program_counter =
                    (mem_read(p, StackCell(wrapping_add8(p.stack, 2))) * 256
                     + mem_read(p, StackCell(wrapping_add8(p.stack, 1)))
                     + 1) % U16

\* C24: a push (PHA) writes the byte at 0x0100 + pointer and moves the
\* pointer down by one modulo 256; a pop (PLA) moves it up by one modulo 256
\* and reads the byte at 0x0100 + pointer: 256 pushes then 256 pops give the
\* bytes back in reverse order and the pointer where it was.
C24_StackDiscipline ==
    LET p == last.pre
    IN  /\ SteppedRow("PHA") =>
              /\ StepDone
              /\ mem_read(Cpu, StackCell(p.stack)) = p.register_a
              /\ stack = wrapping_sub8(p.stack, 1)
        /\ SteppedRow("PLA") =>
              /\ StepDone
              /\ stack = wrapping_add8(p.stack, 1)
              /\ register_a = mem_read(p, StackCell(stack))

\* C25: TAX, TAY, TXA, TYA and TSX copy source to destination, leave the
\* source as it was and set Zero and Negative from the destination; TXS
\* copies X to the stack pointer and leaves the status byte as it was.
C25_Transfers ==
    LET p == last.pre
    IN  /\ SteppedRow("TAX") =>
              /\ register_x = p.register_a
              /\ register_a = p.register_a
              /\ ZeroNegativeOf(register_x)
        /\ SteppedRow("TAY") =>
              /\ register_y = p.register_a
              /\ register_a = p.register_a
              /\ ZeroNegativeOf(register_y)
        /\ SteppedRow("TXA") =>
              /\ register_a = p.register_x
              /\ register_x = p.register_x
              /\ ZeroNegativeOf(register_a)
        /\ SteppedRow("TYA") =>
              /\ register_a = p.register_y
              /\ register_y = p.register_y
              /\ ZeroNegativeOf(register_a)
        /\ SteppedRow("TSX") =>
              /\ register_x = p.stack
              /\ stack = p.stack
              /\ ZeroNegativeOf(register_x)
        /\ SteppedRow("TXS") =>
              /\ stack = p.register_x
              /\ register_x = p.register_x
              /\ status = p.status

\* the codes of the table's STA rows, and the addressing mode of the STA row
\* that carries a code
StaCodes ==
    {NMOS_6502_OPCODES[i].code : i \in
        {j \in DOMAIN NMOS_6502_OPCODES : NMOS_6502_OPCODES[j].mnemonic = "STA"}}

StaMode(code) ==
    LET i == CHOOSE j \in DOMAIN NMOS_6502_OPCODES :
                 /\ NMOS_6502_OPCODES[j].mnemonic = "STA"
                 /\ NMOS_6502_OPCODES[j].code = code
    IN  NMOS_6502_OPCODES[i].mode

\* C26: a step of run() on the code of an STA row that does not fault leaves
\* A in the cell at the effective address of that row's mode and changes no
\* other cell, no flag and no register.
C26_StaStores ==
    (Stepped /\ last.code \in StaCodes /\ StepDone) =>
        LET p == last.pre
            ea == OperandAddr(Fetch(p), StaMode(last.code))
        IN  /\ memory = Store(p.memory, ea, p.register_a)
            /\ status = p.status
            /\ register_a = p.register_a
            /\ register_x = p.register_x
            /\ register_y = p.register_y
            /\ stack = p.stack

\* C27: no step of run() on a byte of the opcode table ends in a todo handler
\* or in the default arm of the dispatch.
C27_DispatchTotal ==
    (Stepped /\ last.code \in DOMAIN NMOS_6502_OPCODES_MAP) =>
        fault \notin {"todo", "dispatch"}

\* C27 witness: the byte 0x91 dispatched to tax, which copied A = 0x80 to X
C27_Witness ==
    /\ SteppedCode(\h91)
    /\ StepDone
    /\ last.pre.register_a = \h80
    /\ last.pre.register_x = \h01
    /\ register_x = \h80

Resolved(mode) == last.op = "resolve" /\ last.call = mode

\* the CPU is as it was before the address was resolved
SameCpu(p) ==
    /\ SameRegistersAndMemory(p)
    /\ status = p.status
    /\ program_counter = p.program_counter
    /\ StepDone

\* C29: the address resolved for ZeroPage is the byte at program_counter, for
\* ZeroPage_X and ZeroPage_Y that byte plus X or Y modulo 256, so it is below
\* 0x0100; resolving changes neither program_counter nor anything else.
C29_ZeroPageAddress ==
    LET p == last.pre
        base == mem_read(p, p.program_counter)
    IN  /\ Resolved("ZeroPage") =>
              last.code = base /\ SameCpu(p)
        /\ Resolved("ZeroPage_X") =>
              last.code = (base + p.register_x) % 256 /\ SameCpu(p)
        /\ Resolved("ZeroPage_Y") =>
              last.code = (base + p.register_y) % 256 /\ SameCpu(p)
        /\ (Resolved("ZeroPage") \/ Resolved("ZeroPage_X")
            \/ Resolved("ZeroPage_Y")) => last.code \in 0 .. \h00FF

\* C29 witness: base 0xFF indexed by X = 0x02 resolves to 0x01
C29_Witness ==
    /\ Resolved("ZeroPage_X")
    /\ mem_read(Cpu, program_counter) = \hFF
    /\ register_x = \h02
    /\ last.code = \h01

\* C30: the address resolved for Indirect_X is memory[p] + 256 * memory[(p + 1)
\* mod 256] with p = (base + X) mod 256, so for p = 0xFF the high byte is the
\* one at 0x0000.
C30_IndirectXAddress ==
    Resolved("Indirect_X") =>
        LET q == last.pre
            base == mem_read(q, q.program_counter)
            p == (base + q.register_x) % 256
        IN  /\ last.code = mem_read(q, p) + 256 * mem_read(q, (p + 1) % 256)
            /\ p = \hFF =>
                  last.code = mem_read(q, \hFF) + 256 * mem_read(q, \h0000)

\* C30 witness: base 0xFE and X = 0x01 give the pointer 0xFF, whose high byte
\* is read at 0x0000 while 0x0100 holds another byte
C30_Witness ==
    /\ Resolved("Indirect_X")
    /\ mem_read(Cpu, program_counter) = \hFE
    /\ register_x = \h01
    /\ mem_read(Cpu, \h0000) # mem_read(Cpu, \h0100)
    /\ last.code = mem_read(Cpu, \hFF) + 256 * mem_read(Cpu, \h0000)

\* C31: resolving NoneAddressing is a fault, and no step of run(), whatever
\* byte of the lookup map it decodes, ends in it.
C31_NoneAddressingUnreached ==
    /\ get_operand_address(Cpu, "NoneAddressing").fault = "mode"
    /\ Stepped => fault # "mode"

\* C31 witness: STA (zero page) resolved its operand address and stored A
C31_Witness ==
    /\ SteppedCode(\h85)
    /\ StepDone
    /\ last.pre.register_a = \h80
    /\ mem_read(Cpu, Operand8(last.pre)) = \h80
    /\ mem_read(last.pre, Operand8(last.pre)) # \h80

RECURSIVE DecrTimes(_, _)
DecrTimes(n, ptr) ==
    LET next == decr_ptr(ptr)
    IN  IF n = 0 THEN ptr
        ELSE IF next \in 0 .. U8 - 1 THEN DecrTimes(n - 1, next) ELSE next

RECURSIVE IncrTimes(_, _)
IncrTimes(n, ptr) ==
    LET next == incr_ptr(ptr)
    IN  IF n = 0 THEN ptr
        ELSE IF next \in 0 .. U8 - 1 THEN IncrTimes(n - 1, next) ELSE next

\* the numbers of moves one way and then the other
MoveCounts == {1, 2, 3, 64}

Incr64(ptr) == IncrTimes(64, ptr)

Decr64(ptr) == DecrTimes(64, ptr)

\* C32: a new stack has pointer 0xFF; incr_ptr (the push direction) lowers the
\* pointer by 1 modulo 256 and decr_ptr (the pop direction) raises it by 1
\* modulo 256; each undoes the other, n of one then n of the other give the
\* pointer back, 256 moves one way come back to the pointer, and
\* 0x0100 | pointer is in 0x0100..0x01FF.
C32_StackPointerMoves ==
    /\ last.op = "new" => stack = \hFF
    /\ last.op = "incr_ptr" =>
          /\ stack = (last.pre.stack + 255) % 256
          /\ decr_ptr(stack) = last.pre.stack
    /\ last.op = "decr_ptr" =>
          /\ stack = (last.pre.stack + 1) % 256
          /\ incr_ptr(stack) = last.pre.stack
    /\ \A n \in MoveCounts :
          /\ DecrTimes(n, IncrTimes(n, stack)) = stack
          /\ IncrTimes(n, DecrTimes(n, stack)) = stack
    /\ Incr64(Incr64(Incr64(Incr64(stack)))) = stack
    /\ Decr64(Decr64(Decr64(Decr64(stack)))) = stack
    /\ BitOr(\h0100, stack) \in \h0100 .. \h01FF

\* C32 witness: incr_ptr at pointer 0x00 wraps to 0xFF
C32_Witness ==
    /\ last.op = "incr_ptr"
    /\ last.pre.stack = \h00
    /\ stack = \hFF

\* C33: every step that fetched a byte leaves program_counter above the
\* address of that byte, and every run() ends, returned or panicked.
C33_RunTerminates ==
    /\ []((Stepped /\ last.code # NoCode)
              => program_counter > last.pre.program_counter)
    /\ <>(ctl \in {"returned", "panicked"})

\* C33 witness: a run over cells filled with TAX walked to the end of memory
\* and panicked on the fetch at 0xFFFF
C33_Witness ==
    /\ Stepped
    /\ last.code = NoCode
    /\ fault = "index"
    /\ last.pre.program_counter = \hFFFF
    /\ mem_read(Cpu, \hFFF1) = \h91
    /\ register_x = \h91

\* the last row of the table that carries a code
LastRowWith(code) ==
    NMOS_6502_OPCODES[CHOOSE i \in RowsWithCode(code) :
                          \A j \in RowsWithCode(code) : j <= i]

\* C34: the lookup returns, for a byte several rows carry, the last of those
\* rows: 0xA9 decodes as LDA Immediate of length 2 and executes as LDA, 0x91
\* decodes as TAX of length 1 and executes as TAX.
C34_LaterRowWins ==
    /\ \A code \in DOMAIN NMOS_6502_OPCODES_MAP :
          NMOS_6502_OPCODES_MAP[code] = LastRowWith(code)
    /\ SteppedCode(\hA9) =>
          /\ last.op_code.mnemonic = "LDA"
          /\ last.op_code.mode = "Immediate"
          /\ last.op_code.len = 2
          /\ (InstrInside(last.pre, 2) =>
                /\ register_a = Operand8(last.pre)
                /\ register_x = last.pre.register_x
                /\ program_counter = last.pre.program_counter + 2)
    /\ SteppedCode(\h91) =>
          /\ last.op_code.mnemonic = "TAX"
          /\ last.op_code.len = 1
          /\ register_x = last.pre.register_a
          /\ memory = last.pre.memory
          /\ program_counter = last.pre.program_counter + 1

\* C34 witness: 0xA9 0x7F executed as LDA #0x7F over X = 0x01, which INX would
\* have raised
C34_Witness ==
    /\ SteppedCode(\hA9)
    /\ Operand8(last.pre) = \h7F
    /\ last.pre.register_x = \h01
    /\ register_a = \h7F
    /\ register_x = \h01

==========================================================================
